---- MODULE Spec2Model ----
(***************************************************************************)
(* SyncService of inbox/mailsync/service.py: the reconciliation loop       *)
(* (run, _run_impl, poll), the desired-set query (accounts_to_sync) and    *)
(* the account supervisor (start_sync, stop_sync), together with the       *)
(* collaborators they act on: the queue client, the account rows, the      *)
(* monitor greenlets and the CPU sampler.                                  *)
(*                                                                         *)
(* Process-local state is indexed by process identifier, so the same       *)
(* operators describe one SyncService or several sharing a queue.          *)
(***************************************************************************)
EXTENDS Integers, Sequences, FiniteSets, TLC

\* ------------------------------------------------------------------ bounds

MaxAccount == 2
NumCores == 2
MaxFaults == 1
MaxCallers == 2

\* --------------------------------------------------------------- constants

\* poll(): "cpu_usage > 90.0", in whole percent
OverloadThreshold == 90

\* Per-core utilisation values a sample may hold (percent): idle, exactly the
\* threshold, above it.
UsageValues == {10, 90, 95}

AccountIds == 1..MaxAccount

\* Greenlets of one process that call the supervisor
Callers == 1..MaxCallers

\* process_identifier values, "<hostname>:<process_number>"
Me == "hostA:0"
Other == "hostB:0"
Procs == {Me, Other}

Kinds == {"email", "contact", "event"}

NoHost == "no_host"
\* query(Account).get(account_id) is None: no row; a record, so that it
\* compares with rows
NoRow == [sync_host |-> NoHost, sync_state |-> "no_row", caps |-> {}]
NoMonitor == "no_monitor"
Unassigned == "unassigned"
\* A greenlet that is in neither body
NoBody == [op |-> "none", id |-> 0]
NoCall == [op |-> "none", id |-> 0, exc |-> "none", unassign |-> 0,
           fault |-> <<"none", "none">>, n |-> 0]

\* ------------------------------------------------------------------- state

VARIABLES
    syncing_accounts,       \* [Procs -> SUBSET AccountIds]: self.syncing_accounts
    email_sync_monitors,    \* [Procs -> [AccountIds -> handle state]]: the dict
    contact_sync_monitors,  \*   holds id a  iff  the entry is not NoMonitor
    event_sync_monitors,
    stray,                  \* [Procs -> [Kinds -> [AccountIds -> Nat]]]: started
                            \*   monitors no dict refers to any more
    stealing_enabled,       \* config SYNC_STEAL_ACCOUNTS
    assignment,             \* queue service: [key -> process or Unassigned]
    accounts,               \* account rows: [AccountIds -> row or NoRow]
    pc,                     \* [Procs -> position of run()/poll()]
    usage_per_cpu,          \* poll()'s local, kept until assigned() is read
    claim_calls,            \* claim_next calls of the acquire phase
    claimed,                \* poll()'s local r: the id claim_next returned, 0
                            \*   for None or when it was not called
    start_accounts,         \* poll()'s local
    start_todo,             \* ids the first for loop has still to visit
    stop_accounts,          \* poll()'s local
    stop_todo,              \* ids the second for loop has still to visit
    tick_running,           \* syncing_accounts when the tick read assigned()
    started,                \* ids start_sync was called for in this tick
    stopped,                \* ids stop_sync was called for in this tick
    start_failed,           \* ids whose start_sync hit an exception this tick
    escaped,                \* exception that left poll(), "none" if none
    last_call,              \* the last start_sync/stop_sync call and its end
    semaphore,              \* [Procs -> Nat]: self.semaphore, what is left of it
    in_body,                \* [Procs -> [Callers -> the body the greenlet is in]]
    faults                  \* injected failures so far

svars == <<syncing_accounts, email_sync_monitors, contact_sync_monitors,
           event_sync_monitors, stray>>
tvars == <<pc, usage_per_cpu, claim_calls, claimed, start_accounts, start_todo,
           stop_accounts, stop_todo, tick_running, started, stopped,
           start_failed, escaped>>
lvars == <<semaphore, in_body>>
vars == <<svars, tvars, lvars, stealing_enabled, assignment, accounts,
          last_call, faults>>

\* ------------------------------------------------- keys of the queue's map

\* str(n): the decimal digits of n, most significant first
RECURSIVE StrOf(_)
StrOf(n) == IF n < 10 THEN <<n>> ELSE Append(StrOf(n \div 10), n % 10)

\* int(k) of a digit string
RECURSIVE IntOf(_)
IntOf(k) == IF Len(k) = 0 THEN 0
            ELSE 10 * IntOf(SubSeq(k, 1, Len(k) - 1)) + k[Len(k)]

Keys == {StrOf(a) : a \in AccountIds}

\* ------------------------------------------------------------ queue client

\* QueueClient.assigned(): the entries of the queue's map
assigned == [k \in {x \in Keys : assignment[x] # Unassigned} |-> assignment[k]]

\* QueueClient.unassign(account_id, process_identifier): releases the entry
\* if this process holds it, a no-op otherwise
unassign(asg, a, p) ==
    IF asg[StrOf(a)] = p THEN [asg EXCEPT ![StrOf(a)] = Unassigned] ELSE asg

\* QueueClient.claim_next(process_identifier): what it may return; 0 stands
\* for None, an id for an account nobody holds, which it then assigns
ClaimResults == {0} \cup {a \in AccountIds : assignment[StrOf(a)] = Unassigned}

claim_next(asg, r, p) == IF r = 0 THEN asg ELSE [asg EXCEPT ![StrOf(r)] = p]

\* ------------------------------------------------------------ account rows

\* A row nobody has synced yet. caps holds the kinds of sync the row asks for
\* and its provider supports: "email" for acc.sync_email, "contact" for
\* provider_info['contacts'] and acc.sync_contacts, "event" for
\* provider_info['events'] and acc.sync_events.
FreshRow(caps) == [sync_host |-> NoHost, sync_state |-> "none", caps |-> caps]

\* Account.sync_started()
sync_started(row) == [row EXCEPT !.sync_state = "running"]

\* Account.sync_stopped(requesting_host): compare-and-swap on sync_host;
\* its boolean result
sync_stopped_ok(row, p) == row.sync_host = p

sync_stopped(row, p) ==
    IF sync_stopped_ok(row, p)
    THEN [row EXCEPT !.sync_host = NoHost, !.sync_state = "stopped"]
    ELSE row

\* session_scope(account_id): leaving the block normally commits what the
\* block wrote to the row, leaving it by an exception rolls it back. The
\* operators below keep the session's view of the row in the field row and
\* restore the row as it was wherever an exception rolls back.

\* ------------------------------------------------------------------ faults

\* Where a call may be made to fail: <<what, where>>
NoFault == <<"none", "none">>
DbLookup == <<"db", "lookup">>
DbCommit == <<"db", "commit">>
DbExit == <<"db", "exit">>
StartFaults == {NoFault, DbLookup, DbCommit}
                   \cup {<<k, w>> : k \in Kinds, w \in {"new", "start"}}
StopFaults == {NoFault, DbLookup, DbExit} \cup {<<k, "kill">> : k \in Kinds}

\* --------------------------------------------------------------- start_sync

\* The supervisor's state as start_sync/stop_sync thread it through their
\* statements: the three dicts, the stray monitors, syncing_accounts, the
\* session's view of the row, the queue's map; exc is an exception caught
\* inside the call, raised the one that leaves it, hit whether the fault
\* chosen for the call was reached.
Entry(p, a) ==
    [email |-> email_sync_monitors[p], contact |-> contact_sync_monitors[p],
     event |-> event_sync_monitors[p], stray |-> stray[p],
     syncing |-> syncing_accounts[p], row |-> accounts[a],
     asg |-> assignment, exc |-> "none", raised |-> "none", hit |-> FALSE,
     unassign |-> 0]

\* One capability block of start_sync: construct the monitor, record it in
\* the dict (the handle recorded before is dropped, started or not), start it.
\* Both event monitor classes go the same way.
StartMonitor(st, k, a, wanted, fault) ==
    IF st.exc # "none" \/ ~wanted THEN st
    ELSE IF fault = <<k, "new">>
    THEN [st EXCEPT !.exc = "Exception", !.hit = TRUE]
    ELSE LET rec == [st EXCEPT ![k][a] = "created",
                               !.stray[k][a] =
                                   @ + (IF st[k][a] = "started" THEN 1 ELSE 0)]
         IN  IF fault = <<k, "start">>
             THEN [rec EXCEPT !.exc = "Exception", !.hit = TRUE]
             ELSE [rec EXCEPT ![k][a] = "started"]

\* acc.sync_started(); self.syncing_accounts.add(acc.id); db_session.commit()
FinishStart(st, a, before, fault) ==
    IF st.exc # "none" THEN st
    ELSE LET s1 == [st EXCEPT !.row = sync_started(@),
                              !.syncing = @ \cup {a}]
         IN  IF fault = DbCommit
             THEN [s1 EXCEPT !.exc = "OperationalError", !.hit = TRUE,
                             !.row = before]
             ELSE s1

NeverMissing(row) == FALSE

\* if acc is None
Missing(row) == row = NoRow

\* if acc.id not in self.syncing_accounts ... else: 'sync already started'
AlreadyStarted(st, a) == a \in st.syncing

\* start_sync(account_id)
start_sync(p, a, fault) ==
    LET st == Entry(p, a)
    IN  IF fault = DbLookup
        THEN [st EXCEPT !.raised = "OperationalError", !.hit = TRUE]
        ELSE IF Missing(st.row) THEN st
        ELSE IF AlreadyStarted(st, a) THEN st
        ELSE LET s1 == [st EXCEPT !.row.sync_host = p]
                 s2 == StartMonitor(s1, "email", a, "email" \in st.row.caps, fault)
                 s3 == StartMonitor(s2, "contact", a, "contact" \in st.row.caps, fault)
                 s4 == StartMonitor(s3, "event", a, "event" \in st.row.caps, fault)
             IN  FinishStart(s4, a, accounts[a], fault)

\* ---------------------------------------------------------------- stop_sync

\* if account_id in <dict>: <dict>[account_id].kill(); del <dict>[account_id]
KillMonitor(st, k, a, fault) ==
    IF st.raised # "none" \/ st[k][a] = NoMonitor THEN st
    ELSE IF fault = <<k, "kill">>
    THEN [st EXCEPT !.raised = "Exception", !.hit = TRUE]
    ELSE [st EXCEPT ![k][a] = NoMonitor]

DiscardSkipped(st, a) == st

\* self.syncing_accounts.discard(account_id)
Discard(st, a) ==
    IF st.raised # "none" THEN st ELSE [st EXCEPT !.syncing = @ \ {a}]

\* acc.sync_should_run where get() returned None
NoneDereferenced(row) == row = NoRow

\* with session_scope(account_id) as db_session: ... (the heartbeat store
\* that clear_heartbeat_status writes is no part of this state)
UpdateDatabase(st, a, p, fault) ==
    IF st.raised # "none" THEN st
    ELSE IF fault = DbLookup
    THEN [st EXCEPT !.raised = "OperationalError", !.hit = TRUE]
    ELSE IF NoneDereferenced(st.row)
    THEN [st EXCEPT !.raised = "AttributeError"]
    ELSE IF fault = DbExit
    THEN [st EXCEPT !.raised = "OperationalError", !.hit = TRUE]
    ELSE [st EXCEPT !.row = sync_stopped(@, p)]

ReleaseForgotten(st, a, p) == st

\* r = self.queue_client.unassign(account_id, self.process_identifier)
Release(st, a, p) ==
    IF st.raised # "none" THEN st
    ELSE [st EXCEPT !.asg = unassign(@, a, p), !.unassign = @ + 1]

\* stop_sync(account_id)
stop_sync(p, a, fault) ==
    LET s1 == KillMonitor(Entry(p, a), "email", a, fault)
        s2 == KillMonitor(s1, "contact", a, fault)
        s3 == KillMonitor(s2, "event", a, fault)
        s4 == Discard(s3, a)
        s5 == UpdateDatabase(s4, a, p, fault)
    IN  Release(s5, a, p)

\* The state a call leaves behind
Apply(p, a, st) ==
    /\ email_sync_monitors' = [email_sync_monitors EXCEPT ![p] = st.email]
    /\ contact_sync_monitors' = [contact_sync_monitors EXCEPT ![p] = st.contact]
    /\ event_sync_monitors' = [event_sync_monitors EXCEPT ![p] = st.event]
    /\ stray' = [stray EXCEPT ![p] = st.stray]
    /\ syncing_accounts' = [syncing_accounts EXCEPT ![p] = st.syncing]
    /\ accounts' = [accounts EXCEPT ![a] = st.row]
    /\ assignment' = st.asg

\* ------------------------------------------------------------------- poll()

\* psutil.cpu_percent(percpu=True): one value per core; an empty list when
\* the sampler has no per-core data
RECURSIVE SeqsUpTo(_)
SeqsUpTo(n) ==
    IF n = 0 THEN {<<>>}
    ELSE LET shorter == SeqsUpTo(n - 1)
         IN  shorter \cup {Append(u, v) : u \in {x \in shorter : Len(x) = n - 1},
                                          v \in UsageValues}

Samples == SeqsUpTo(NumCores)

overloaded_at_threshold(usage) ==
    \A i \in 1..Len(usage) : usage[i] >= OverloadThreshold

\* all([cpu_usage > 90.0 for cpu_usage in usage_per_cpu])
overloaded_cpus(usage) ==
    \A i \in 1..Len(usage) : usage[i] > OverloadThreshold

\* if self.stealing_enabled and not overloaded_cpus
Admits(usage) == stealing_enabled /\ ~overloaded_cpus(usage)

accounts_to_sync_or_claimed(p) ==
    {IntOf(k) : k \in {x \in DOMAIN assigned : assigned[x] = p}}
        \cup ({claimed[p]} \ {0})

\* {int(k) for k, v in self.queue_client.assigned().items()
\*  if v == self.process_identifier}
accounts_to_sync(p) ==
    {IntOf(k) : k \in {x \in DOMAIN assigned : assigned[x] = p}}

\* if account_id not in self.syncing_accounts
MustStart(p, a) == a \notin syncing_accounts[p]

StopSetOfDesired(p) == syncing_accounts[p] \cap start_accounts[p]

\* stop_accounts = self.syncing_accounts - set(start_accounts)
StopSet(p) == syncing_accounts[p] \ start_accounts[p]

\* except OperationalError around the two calls of poll()
Caught(raised) == raised = "OperationalError"

\* The record of a call: which, for which id, the exception that left it,
\* its unassign calls, the failure injected into it; n flips at every call
Call(op, a, fault, st) ==
    [op |-> op, id |-> a, exc |-> st.raised, unassign |-> st.unassign,
     fault |-> fault, n |-> 1 - last_call.n]

Injected(fault, st) ==
    /\ st.hit = (fault # NoFault)
    /\ IF st.hit THEN faults < MaxFaults /\ faults' = faults + 1
                 ELSE faults' = faults

\* Lines 91-100: sample the CPUs and, if admitted, claim an account
PollAcquire(p) ==
    /\ pc[p] = "idle"
    /\ \E usage \in Samples :
          /\ usage_per_cpu' = [usage_per_cpu EXCEPT ![p] = usage]
          /\ IF Admits(usage)
             THEN /\ \E r \in ClaimResults :
                        /\ assignment' = claim_next(assignment, r, p)
                        /\ claimed' = [claimed EXCEPT ![p] = r]
                  /\ claim_calls' = [claim_calls EXCEPT ![p] = 1]
             ELSE /\ assignment' = assignment
                  /\ claimed' = [claimed EXCEPT ![p] = 0]
                  /\ claim_calls' = [claim_calls EXCEPT ![p] = 0]
    /\ pc' = [pc EXCEPT ![p] = "converge"]
    /\ UNCHANGED <<svars, stealing_enabled, lvars, accounts, start_accounts,
                   start_todo, stop_accounts, stop_todo, tick_running, started,
                   stopped, start_failed, escaped, last_call, faults>>

\* Lines 103-106: start_accounts = self.accounts_to_sync()
ReadAssigned(p) ==
    /\ pc[p] = "converge"
    /\ start_accounts' = [start_accounts EXCEPT ![p] = accounts_to_sync(p)]
    /\ start_todo' = [start_todo EXCEPT ![p] = accounts_to_sync(p)]
    /\ tick_running' = [tick_running EXCEPT ![p] = syncing_accounts[p]]
    /\ usage_per_cpu' = [usage_per_cpu EXCEPT ![p] = <<>>]
    /\ claim_calls' = [claim_calls EXCEPT ![p] = 0]
    /\ pc' = [pc EXCEPT ![p] = "starting"]
    /\ UNCHANGED <<svars, stealing_enabled, lvars, assignment, accounts, claimed,
                   stop_accounts, stop_todo, started, stopped, start_failed,
                   escaped, last_call, faults>>

\* Lines 109-116: one round of "for account_id in start_accounts", in the
\* order the set happens to iterate
StartNext(p) ==
    /\ pc[p] = "starting"
    /\ \E a \in start_todo[p] :
          /\ start_todo' = [start_todo EXCEPT ![p] = @ \ {a}]
          /\ IF MustStart(p, a)
             THEN \E fault \in StartFaults :
                     LET st == start_sync(p, a, fault)
                     IN  /\ Injected(fault, st)
                         /\ Apply(p, a, st)
                         /\ started' = [started EXCEPT ![p] = @ \cup {a}]
                         /\ start_failed' =
                                IF st.exc # "none" \/ st.raised # "none"
                                THEN [start_failed EXCEPT ![p] = @ \cup {a}]
                                ELSE start_failed
                         /\ last_call' = Call("start_sync", a, fault, st)
             ELSE UNCHANGED <<svars, assignment, accounts, started,
                              start_failed, last_call, faults>>
    /\ UNCHANGED <<stealing_enabled, lvars, pc, usage_per_cpu, claim_calls, claimed,
                   start_accounts, stop_accounts, stop_todo, tick_running,
                   stopped, escaped>>

\* Line 118: stop_accounts = self.syncing_accounts - set(start_accounts)
BeginStops(p) ==
    /\ pc[p] = "starting"
    /\ start_todo[p] = {}
    /\ stop_accounts' = [stop_accounts EXCEPT ![p] = StopSet(p)]
    /\ stop_todo' = [stop_todo EXCEPT ![p] = StopSet(p)]
    /\ pc' = [pc EXCEPT ![p] = "stopping"]
    /\ UNCHANGED <<svars, stealing_enabled, lvars, assignment, accounts,
                   usage_per_cpu, claim_calls, claimed, start_accounts,
                   start_todo, tick_running, started, stopped, start_failed,
                   escaped, last_call, faults>>

\* Lines 119-127: one round of "for account_id in stop_accounts"; an
\* exception other than OperationalError leaves poll()
StopNext(p) ==
    /\ pc[p] = "stopping"
    /\ \E a \in stop_todo[p], fault \in StopFaults :
          LET st == stop_sync(p, a, fault)
          IN  /\ Injected(fault, st)
              /\ Apply(p, a, st)
              /\ stopped' = [stopped EXCEPT ![p] = @ \cup {a}]
              /\ stop_todo' = [stop_todo EXCEPT ![p] = @ \ {a}]
              /\ last_call' = Call("stop_sync", a, fault, st)
              /\ IF st.raised = "none" \/ Caught(st.raised)
                 THEN UNCHANGED <<pc, escaped>>
                 ELSE /\ pc' = [pc EXCEPT ![p] = "crashed"]
                      /\ escaped' = [escaped EXCEPT ![p] = st.raised]
    /\ UNCHANGED <<stealing_enabled, lvars, usage_per_cpu, claim_calls, claimed,
                   start_accounts, start_todo, stop_accounts, tick_running,
                   started, start_failed>>

\* What poll() leaves when it ends: its locals are gone
TickOver(p) ==
    /\ start_accounts' = [start_accounts EXCEPT ![p] = {}]
    /\ start_todo' = [start_todo EXCEPT ![p] = {}]
    /\ stop_accounts' = [stop_accounts EXCEPT ![p] = {}]
    /\ stop_todo' = [stop_todo EXCEPT ![p] = {}]
    /\ tick_running' = [tick_running EXCEPT ![p] = {}]
    /\ started' = [started EXCEPT ![p] = {}]
    /\ stopped' = [stopped EXCEPT ![p] = {}]
    /\ start_failed' = [start_failed EXCEPT ![p] = {}]
    /\ escaped' = [escaped EXCEPT ![p] = "none"]
    /\ claimed' = [claimed EXCEPT ![p] = 0]
    /\ last_call' = NoCall
    /\ pc' = [pc EXCEPT ![p] = "idle"]
    /\ UNCHANGED <<svars, stealing_enabled, lvars, assignment, accounts,
                   usage_per_cpu, claim_calls, faults>>

\* _run_impl: poll() returned; gevent.sleep(self.poll_interval)
PollReturn(p) ==
    /\ pc[p] = "stopping"
    /\ stop_todo[p] = {}
    /\ TickOver(p)

run_once(p) ==
    /\ pc[p] = "crashed"
    /\ UNCHANGED vars

\* run(): retry_with_logging logs what left _run_impl and calls it again
Recover(p) ==
    /\ pc[p] = "crashed"
    /\ TickOver(p)

\* ------------------------------------------------------------- environment

\* The environment is let in where poll() reads what it changes: before a
\* tick and between claim_next and assigned(). Within the two loops each
\* account's row and key are touched by one call at most, so a change during
\* the loops acts as one made before or after the tick.
Quiet == \A p \in Procs : pc[p] \in {"idle", "converge"}

\* The queue service's map changes: another process claims or releases an
\* account, the scheduler moves one
Reassign ==
    /\ Quiet
    /\ \E k \in Keys, v \in Procs \cup {Unassigned} :
          /\ assignment[k] # v
          /\ assignment' = [assignment EXCEPT ![k] = v]
    /\ UNCHANGED <<svars, tvars, stealing_enabled, lvars, accounts, last_call, faults>>

\* An account row is deleted
DeleteAccount ==
    /\ Quiet
    /\ \E a \in AccountIds :
          /\ accounts[a] # NoRow
          /\ accounts' = [accounts EXCEPT ![a] = NoRow]
    /\ UNCHANGED <<svars, tvars, stealing_enabled, lvars, assignment, last_call, faults>>

\* ------------------------------------------------------------ specification

\* __init__: nothing is syncing, the dicts are empty
InitService ==
    /\ syncing_accounts = [p \in Procs |-> {}]
    /\ email_sync_monitors = [p \in Procs |-> [a \in AccountIds |-> NoMonitor]]
    /\ contact_sync_monitors = [p \in Procs |-> [a \in AccountIds |-> NoMonitor]]
    /\ event_sync_monitors = [p \in Procs |-> [a \in AccountIds |-> NoMonitor]]
    /\ stray = [p \in Procs |-> [k \in Kinds |-> [a \in AccountIds |-> 0]]]
    /\ stealing_enabled \in BOOLEAN
    /\ pc = [p \in Procs |-> "idle"]
    /\ usage_per_cpu = [p \in Procs |-> <<>>]
    /\ claim_calls = [p \in Procs |-> 0]
    /\ claimed = [p \in Procs |-> 0]
    /\ start_accounts = [p \in Procs |-> {}]
    /\ start_todo = [p \in Procs |-> {}]
    /\ stop_accounts = [p \in Procs |-> {}]
    /\ stop_todo = [p \in Procs |-> {}]
    /\ tick_running = [p \in Procs |-> {}]
    /\ started = [p \in Procs |-> {}]
    /\ stopped = [p \in Procs |-> {}]
    /\ start_failed = [p \in Procs |-> {}]
    /\ escaped = [p \in Procs |-> "none"]
    /\ last_call = NoCall
    /\ semaphore = [p \in Procs |-> 1]
    /\ in_body = [p \in Procs |-> [c \in Callers |-> NoBody]]

Init ==
    /\ InitService
    /\ faults = 0
    /\ assignment = [k \in Keys |-> Unassigned]
    /\ \E caps \in SUBSET Kinds : accounts = [a \in AccountIds |-> FreshRow(caps)]

Poll(p) ==
    \/ PollAcquire(p)
    \/ ReadAssigned(p)
    \/ StartNext(p)
    \/ BeginStops(p)
    \/ StopNext(p)
    \/ PollReturn(p)
    \/ Recover(p)

Environment == Reassign \/ DeleteAccount

\* One SyncService, Me, against a queue that others use too
Next == Poll(Me) \/ Environment

Spec == Init /\ [][Next]_vars

\* The accounts of the end-to-end scenario: sync_email set, no contacts or
\* events capability
InitEmail ==
    /\ InitService
    /\ faults = 0
    /\ assignment = [k \in Keys |-> Unassigned]
    /\ accounts = [a \in AccountIds |-> FreshRow({"email"})]

\* Lines 91, 98, 103: psutil.cpu_percent, claim_next or assigned() raises;
\* poll() has no handler around them
ClientFails(p) ==
    /\ pc[p] \in {"idle", "converge"}
    /\ faults < MaxFaults
    /\ faults' = faults + 1
    /\ pc' = [pc EXCEPT ![p] = "crashed"]
    /\ escaped' = [escaped EXCEPT ![p] = "Exception"]
    /\ UNCHANGED <<svars, stealing_enabled, lvars, assignment, accounts,
                   usage_per_cpu, claim_calls, claimed, start_accounts,
                   start_todo, stop_accounts, stop_todo, tick_running, started,
                   stopped, start_failed, last_call>>

NextFair == Next \/ ClientFails(Me)

\* _run_impl's "while True" never stops taking steps: poll(), the sleep and
\* the retry of run() all end
SpecFair == InitEmail /\ [][NextFair]_vars /\ WF_vars(Poll(Me))

\* ------------------------------------------------- two services, one queue

\* Two SyncService processes, Me and Other, of the same code against the same
\* queue and account store, their ticks interleaved step by step. The queue
\* service alone hands accounts out (no stealing) and no failure is injected.
InitPair ==
    /\ InitService
    /\ ~stealing_enabled
    /\ faults = MaxFaults
    /\ assignment = [k \in Keys |-> Unassigned]
    /\ accounts = [a \in AccountIds |-> FreshRow({"email"})]

NextPair == Poll(Me) \/ Poll(Other) \/ Environment

SpecPair == InitPair /\ [][NextPair]_vars

\* ------------------------------------------ the supervisor called directly

\* A caller other than poll() (a test, a console) calls start_sync
CallStart(p) ==
    /\ pc[p] = "idle"
    /\ \E a \in AccountIds, fault \in StartFaults :
          LET st == start_sync(p, a, fault)
          IN  /\ Injected(fault, st)
              /\ Apply(p, a, st)
              /\ last_call' = Call("start_sync", a, fault, st)
    /\ UNCHANGED <<tvars, lvars, stealing_enabled>>

\* ... or stop_sync
CallStop(p) ==
    /\ pc[p] = "idle"
    /\ \E a \in AccountIds, fault \in StopFaults :
          LET st == stop_sync(p, a, fault)
          IN  /\ Injected(fault, st)
              /\ Apply(p, a, st)
              /\ last_call' = Call("stop_sync", a, fault, st)
    /\ UNCHANGED <<tvars, lvars, stealing_enabled>>

NextApi == CallStart(Me) \/ CallStop(Me) \/ Environment

\* start_sync and stop_sync of one SyncService called in any order
SpecApi == Init /\ [][NextApi]_vars

\* ---------------------------------------- concurrent callers, one process

GuardedStartOnly(op) == op = "start_sync"

\* "with self.semaphore" opens the body of start_sync (line 139) and of
\* stop_sync (line 197)
Guarded(op) == op \in {"start_sync", "stop_sync"}

\* BoundedSemaphore(1).acquire(): blocks while nothing is left
Acquire(p, op) ==
    IF Guarded(op)
    THEN /\ semaphore[p] > 0
         /\ semaphore' = [semaphore EXCEPT ![p] = @ - 1]
    ELSE UNCHANGED semaphore

\* ... and release(), on leaving the with block, by return or exception
Release_semaphore(p, op) ==
    IF Guarded(op)
    THEN semaphore' = [semaphore EXCEPT ![p] = @ + 1]
    ELSE UNCHANGED semaphore

\* Greenlet c calls start_sync(a) or stop_sync(a) and enters its body, where
\* the database and the monitors let other greenlets run
Enter(p, c) ==
    /\ in_body[p][c] = NoBody
    /\ \E op \in {"start_sync", "stop_sync"}, a \in AccountIds :
          /\ Acquire(p, op)
          /\ in_body' = [in_body EXCEPT ![p][c] = [op |-> op, id |-> a]]
    /\ UNCHANGED <<svars, tvars, stealing_enabled, assignment, accounts,
                   last_call, faults>>

\* The body runs to its end and the greenlet leaves it
Leave(p, c) ==
    /\ in_body[p][c] # NoBody
    /\ LET op == in_body[p][c].op
           a == in_body[p][c].id
       IN  /\ \E fault \in IF op = "start_sync" THEN StartFaults ELSE StopFaults :
                 LET st == IF op = "start_sync" THEN start_sync(p, a, fault)
                                                ELSE stop_sync(p, a, fault)
                 IN  /\ Injected(fault, st)
                     /\ Apply(p, a, st)
                     /\ last_call' = Call(op, a, fault, st)
           /\ Release_semaphore(p, op)
    /\ in_body' = [in_body EXCEPT ![p][c] = NoBody]
    /\ UNCHANGED <<tvars, stealing_enabled>>

NextLock == \E c \in Callers : Enter(Me, c) \/ Leave(Me, c)

\* Greenlets of one process calling start_sync and stop_sync concurrently
SpecLock == Init /\ [][NextLock]_vars

\* ------------------------------------------------------------------ claims

\* The three dicts of process p by kind
MonitorsOf(p) ==
    [email |-> email_sync_monitors[p], contact |-> contact_sync_monitors[p],
     event |-> event_sync_monitors[p]]

\* Started monitors of kind k for account a in process p, recorded or not
Live(p, k, a) ==
    stray[p][k][a] + (IF MonitorsOf(p)[k][a] = "started" THEN 1 ELSE 0)

\* Account a has no row
RowGone(a) == accounts[a] = NoRow

\* This step is a call of start_sync(a) / stop_sync(a)
StartCalled(a) ==
    /\ last_call'.n # last_call.n
    /\ last_call'.op = "start_sync"
    /\ last_call'.id = a

StopCalled(a) ==
    /\ last_call'.n # last_call.n
    /\ last_call'.op = "stop_sync"
    /\ last_call'.id = a

\* poll() has returned / has ended, by returning or by an exception
TickReturned(p) == pc[p] = "stopping" /\ stop_todo[p] = {}
TickEnded(p) == TickReturned(p) \/ pc[p] = "crashed"

\* C1: in a tick that read the desired set D with R running, start_sync is
\* called only for ids of D \ R and stop_sync only for ids of R \ D, no id is
\* both started and stopped, and when the tick has ended, no failure having
\* been injected into any call, start_sync was called for all of D \ R and
\* stop_sync for all of R \ D.
C1_DiffCorrect ==
    LET D == start_accounts[Me]
        R == tick_running[Me]
    IN  /\ started[Me] \subseteq D \ R
        /\ stopped[Me] \subseteq R \ D
        /\ started[Me] \cap stopped[Me] = {}
        /\ (TickEnded(Me) /\ faults = 0)
               => started[Me] = D \ R /\ stopped[Me] = R \ D

\* C2: when start_sync is called twice in a row for an account that exists,
\* afterwards at most one monitor of each kind is live for it, and if the
\* first call put the id into syncing_accounts the second changes nothing.
C2_IdempotentStart ==
    [][\A a \in AccountIds :
          (/\ last_call.op = "start_sync"
           /\ last_call.id = a
           /\ StartCalled(a)
           /\ ~RowGone(a))
          => /\ \A k \in Kinds : Live(Me, k, a)' <= 1
             /\ a \in syncing_accounts[Me]
                   => UNCHANGED <<svars, accounts, assignment>>]_vars

\* C3: a stop_sync call for an id that is not in syncing_accounts changes
\* neither syncing_accounts, the dicts, the row nor the queue's map, and
\* raises nothing. Stated for the calls that have the least to do: no failure
\* was ever injected, this process holds no handle for the id, the queue
\* does not give the id to it and the row does not name it as sync_host.
C3_IdempotentStop ==
    [][\A a \in AccountIds :
          (/\ StopCalled(a)
           /\ a \notin syncing_accounts[Me]
           /\ faults' = 0
           /\ \A k \in Kinds : MonitorsOf(Me)[k][a] = NoMonitor
           /\ assignment[StrOf(a)] # Me
           /\ accounts[a].sync_host # Me)
          => /\ UNCHANGED <<svars, accounts, assignment>>
             /\ last_call'.exc = "none"]_vars

\* C4: when poll() has returned from a tick in which a start failed, every
\* id of D \ R had its start_sync call, every id of R \ D its stop_sync call,
\* and no id whose start failed is in syncing_accounts.
C4_StartIsolation ==
    (TickReturned(Me) /\ start_failed[Me] # {})
    => /\ started[Me] = start_accounts[Me] \ tick_running[Me]
       /\ stopped[Me] = tick_running[Me] \ start_accounts[Me]
       /\ start_failed[Me] \cap syncing_accounts[Me] = {}

\* C5: no failure of a stop_sync call leaves poll(): nothing escapes, and a
\* tick that has ended has called stop_sync for every id of stop_accounts.
C5_StopIsolation ==
    /\ escaped[Me] = "none"
    /\ pc[Me] # "crashed"
    /\ TickEnded(Me) => stopped[Me] = stop_accounts[Me]

\* C6: a stop_sync call, with no failure injected, for a running id whose row
\* is gone raises nothing, leaves the id in none of the dicts nor in
\* syncing_accounts, and has called unassign once.
C6_StopVanished ==
    (/\ last_call.op = "stop_sync"
     /\ last_call.fault = NoFault
     /\ RowGone(last_call.id))
    => /\ last_call.exc = "none"
       /\ last_call.unassign = 1
       /\ last_call.id \notin syncing_accounts[Me]
       /\ \A k \in Kinds : MonitorsOf(Me)[k][last_call.id] = NoMonitor

\* C7: a start_sync call for an id without a row changes neither
\* syncing_accounts, the dicts, the started monitors, the rows nor the
\* queue's map, and raises nothing unless the lookup itself fails; and by the
\* end of the first loop of every tick start_sync has been called for every
\* assigned id that is not syncing, the ids without a row among them.
C7_StartMissing ==
    /\ [][\A a \in AccountIds :
             (StartCalled(a) /\ RowGone(a))
             => /\ UNCHANGED <<svars, accounts, assignment>>
                /\ last_call'.fault = NoFault => last_call'.exc = "none"]_vars
    /\ [](pc[Me] = "stopping"
             => \A a \in start_accounts[Me] \ tick_running[Me] :
                   /\ a \in started[Me]
                   /\ RowGone(a) => a \notin syncing_accounts[Me])

C7_Witness ==
    /\ pc[Me] = "stopping"
    /\ last_call.op = "start_sync"
    /\ last_call.exc = "none"
    /\ RowGone(last_call.id)
    /\ last_call.id \in started[Me]

\* C8: a stop_sync call that returns has called unassign once, and the
\* queue's map then does not give the id to this process.
C8_StopReleases ==
    [][\A a \in AccountIds :
          (StopCalled(a) /\ last_call'.exc = "none")
          => /\ last_call'.unassign = 1
             /\ assignment'[StrOf(a)] # Me
             /\ a \notin accounts_to_sync(Me)']_vars

C8_Witness ==
    /\ last_call.op = "stop_sync"
    /\ last_call.exc = "none"
    /\ last_call.unassign = 1
    /\ accounts[last_call.id].sync_state = "stopped"
    /\ assignment[StrOf(last_call.id)] = Unassigned

\* C9: after the acquire phase of a tick claim_next has been called once if
\* stealing is enabled and some sampled core is at 90 or below, and not at
\* all otherwise.
C9_AdmissionGate ==
    pc[Me] = "converge"
    => LET u == usage_per_cpu[Me]
           admitted == stealing_enabled /\ \E i \in 1..Len(u) : u[i] <= 90
       IN  claim_calls[Me] = (IF admitted THEN 1 ELSE 0)

C9_Witness ==
    /\ pc[Me] = "converge"
    /\ usage_per_cpu[Me] = <<95, 90>>
    /\ claim_calls[Me] = 1

\* C10: with stealing enabled, a tick whose sample holds no per-core data
\* still calls claim_next.
C10_FailOpen ==
    (pc[Me] = "converge" /\ stealing_enabled /\ usage_per_cpu[Me] = <<>>)
    => claim_calls[Me] = 1

\* C11: claim_next is called before assigned() is read; the desired set of a
\* tick is the set of ids the queue's map gives this process when assigned()
\* is read; start_sync is called only for ids of that set; so an id
\* claim_next returned that the map does not give this process at the read
\* is not started in the tick.
C11_ClaimsAdvisory ==
    /\ [][claimed'[Me] # claimed[Me] /\ claimed'[Me] # 0
             => pc[Me] = "idle" /\ pc'[Me] = "converge"]_vars
    /\ [][pc[Me] = "converge" /\ pc'[Me] = "starting"
             => start_accounts'[Me] =
                    {a \in AccountIds : assignment[StrOf(a)] = Me}]_vars
    /\ [][\A a \in AccountIds : StartCalled(a) => a \in start_accounts[Me]]_vars
    /\ [](claimed[Me] \notin start_accounts[Me] => claimed[Me] \notin started[Me])

C11_Witness ==
    /\ pc[Me] = "stopping"
    /\ claimed[Me] # 0
    /\ claimed[Me] \notin start_accounts[Me]
    /\ claimed[Me] \notin syncing_accounts[Me]
    /\ started[Me] # {}

\* C12: whatever leaves poll(), the loop is entered again: a tick begins
\* infinitely often, and the step that re-enters the loop after a failure
\* changes neither syncing_accounts nor the dicts nor the started monitors.
C12_CrashOnlyRecovery ==
    /\ []<>(pc[Me] = "converge")
    /\ [][pc[Me] = "crashed" /\ pc'[Me] # "crashed" => UNCHANGED svars]_vars

C12_Witness ==
    /\ pc[Me] = "crashed"
    /\ escaped[Me] = "AttributeError"
    /\ syncing_accounts[Me] # {}
    /\ \E a \in syncing_accounts[Me] : email_sync_monitors[Me][a] = "started"

C14_PartialStartCorrected ==
    \A a \in syncing_accounts[Me], k \in Kinds :
        /\ stray[Me][k][a] = 0
        /\ Live(Me, k, a) <= 1

C16_SingleOwner ==
    \A a \in AccountIds :
        ~(a \in syncing_accounts[Me] /\ a \in syncing_accounts[Other])

\* C17: of the greenlets of a process at most one is inside a start_sync or
\* stop_sync body at any time, and the semaphore counts it.
C17_MutualExclusion ==
    LET inside == {c \in Callers : in_body[Me][c] # NoBody}
    IN  /\ Cardinality(inside) <= 1
        /\ semaphore[Me] = 1 - Cardinality(inside)

C17_Witness ==
    /\ semaphore[Me] = 0
    /\ \E c \in Callers : in_body[Me][c].op = "stop_sync"
    /\ last_call.op = "start_sync"
    /\ syncing_accounts[Me] # {}

\* C18: an id is in syncing_accounts only if the row, while it exists, names
\* this process as sync_host and carries the started marker, both committed;
\* a start_sync call whose commit failed leaves the id out of
\* syncing_accounts.
C18_RunningIsPersisted ==
    /\ \A a \in syncing_accounts[Me] :
           ~RowGone(a) => /\ accounts[a].sync_host = Me
                          /\ accounts[a].sync_state = "running"
    /\ (last_call.op = "start_sync" /\ last_call.fault = DbCommit)
           => last_call.id \notin syncing_accounts[Me]

\* C19: when a stop_sync call has ended, by return or by exception, none of
\* the three dicts holds the id and the id is not in syncing_accounts.
C19_UnconditionalRemoval ==
    last_call.op = "stop_sync"
    => /\ \A k \in Kinds : MonitorsOf(Me)[k][last_call.id] = NoMonitor
       /\ last_call.id \notin syncing_accounts[Me]

\* C20: when a tick has returned that found nothing to start and nothing to
\* stop, an id outside syncing_accounts has no live monitor left, and its row
\* does not still say that this process is running its sync.
C20_NothingStranded ==
    (TickReturned(Me) /\ started[Me] = {} /\ stopped[Me] = {})
    => \A a \in AccountIds \ syncing_accounts[Me] :
          /\ \A k \in Kinds : Live(Me, k, a) = 0
          /\ ~(accounts[a].sync_host = Me /\ accounts[a].sync_state = "running")

====
